---- MODULE Spec2Model ----
(***************************************************************************)
(* The useComputerVision hook of cv-playground                             *)
(* (src/cv-playground/hooks/useComputerVision.ts) as a state machine.      *)
(*                                                                         *)
(* JavaScript runs every callback to completion, so each action below is   *)
(* one whole callback: a promise continuation of initializeModels, one     *)
(* animation-frame callback (processFrame), or one render of the hook      *)
(* together with the effects that render commits.                          *)
(***************************************************************************)
EXTENDS Integers, Sequences, FiniteSets, TLC

VARIABLES
    mounted,            \* the component using the hook is mounted
    isMounted,          \* line 39: the init effect's closure flag
    isLoading,          \* line 24: useState(true)
    error,              \* line 25: useState<string | null>(null)
    fps,                \* line 26: useState(0)
    faceLandmarkerRef,  \* line 28
    handLandmarkerRef,  \* line 29
    poseLandmarkerRef,  \* line 30
    animationFrameRef,  \* line 32: 0 stands for undefined
    lastTimeRef,        \* line 33
    frameCountRef,      \* line 34
    fpsTimeRef,         \* line 35
    mode,               \* lines 19-22: the props of the latest render
    videoElement,
    canvasElement,
    enabled,
    initPc,             \* where initializeModels is suspended
    created,            \* the three createFromOptions promises
    pending,            \* animation-frame callbacks requested and not yet run
    nextId,             \* the id the next requestAnimationFrame returns
    clock,              \* timestamp of the latest display refresh, ms
    lastTick,           \* what the latest run of processFrame did
    hand,               \* drawRockPaper: the detection result it was given
    handDrawn,          \* drawRockPaper: what it drew
    surface,            \* the width and height the draw functions are given
    face,               \* drawClownNose: results.faceLandmarks
    faceDrawn,          \* drawClownNose: what it drew
    pose,               \* drawVictory: results.landmarks
    poseDrawn           \* drawVictory: what it drew

hookVars == <<mounted, isMounted, isLoading, error, fps, faceLandmarkerRef,
              handLandmarkerRef, poseLandmarkerRef, animationFrameRef,
              lastTimeRef, frameCountRef, fpsTimeRef, mode, videoElement,
              canvasElement, enabled, initPc, created, pending, nextId,
              clock, lastTick>>

handVars == <<hand, handDrawn>>

faceVars == <<surface, face, faceDrawn>>

poseVars == <<pose, poseDrawn>>

drawVars == <<handVars, faceVars, poseVars>>

vars == <<hookVars, drawVars>>

----------------------------------------------------------------------------
(* Bounds *)

\* requestAnimationFrame ids handed out in one behaviour
MaxFrames == 3

\* hand landmark coordinates are drawn from 0..MaxCoord
MaxCoord == 1

\* face landmark coordinates, in tenths of the frame, are drawn from 0..MaxTenth
MaxTenth == 6

\* milliseconds between two display refreshes
FrameIntervals == {500, 1000}

----------------------------------------------------------------------------
(* Values *)

NULL == "null"

Modes == {"clown-nose", "rock-paper", "victory"}

Detectors == {"face", "hand", "pose"}

\* a mounted <video>, or null
VideoElements == {NULL, "video"}

\* a mounted <canvas> whose getContext('2d') gives a context, one whose
\* getContext('2d') gives null (it already holds another context type), or null
CanvasElements == {NULL, "canvas", "canvasNoCtx"}

\* HTMLMediaElement.readyState: HAVE_NOTHING .. HAVE_ENOUGH_DATA
ReadyStates == {0, 1, 2, 4}

\* what a rejected promise of initializeModels carries: an Error with a
\* message, or a value that is no Error
Rejections == {"Error:wasm fetch failed", "notAnError"}

\* how the detector call and the draw call of one tick end
Outcomes == {"ok", "detectThrows", "drawThrows"}

Range(s) == {s[i] : i \in 1..Len(s)}

----------------------------------------------------------------------------
(* Model lifecycle: the init effect, lines 38-108 *)

\* line 97
ErrorMessage(err) ==
    IF err = "notAnError" THEN "Failed to load CV models" ELSE err

\* Promise.all, mutated: it waits for every promise and fulfils anyway
PromiseAllSettled(st) ==
    IF \E d \in Detectors : st[d] = "pending" THEN "pending" ELSE "fulfilled"

\* line 53: Promise.all rejects with the first rejection, fulfils when all did
PromiseAll(st) ==
    IF \E d \in Detectors : st[d] = "rejected" THEN "rejected"
    ELSE IF \A d \in Detectors : st[d] = "fulfilled" THEN "fulfilled"
    ELSE "pending"

\* the value the destructuring of line 53 binds for detector d
Landmarker(st, d) == IF st[d] = "fulfilled" THEN d ELSE NULL

\* the closure of processFrame made by a render: its useCallback deps, line 165
Closure(m, v, c, e, l) ==
    [mode |-> m, videoElement |-> v, canvasElement |-> c, enabled |-> e,
     isLoading |-> l]

CurrentClosure == Closure(mode, videoElement, canvasElement, enabled, isLoading)

\* line 175
CancelAnimationFrame(id, cbs) == {cb \in cbs : cb.id # id}

\* the cleanup of the start/stop effect, mutated: it cancels nothing
StartStopCleanupNoCancel == pending

\* lines 173-177: the cleanup of the start/stop effect; what stays requested
StartStopCleanup ==
    IF animationFrameRef # 0
    THEN CancelAnimationFrame(animationFrameRef, pending)
    ELSE pending

\* the start/stop effect, mutated: it returns no cleanup when it requests a
\* frame, so the callback of its previous run stays requested
StartStopEffectNoCleanup(c) ==
    IF c.enabled /\ ~c.isLoading
    THEN /\ animationFrameRef' = nextId
         /\ pending' = pending \cup {[id |-> nextId, closure |-> c,
                                       at |-> clock]}
         /\ nextId' = nextId + 1
    ELSE /\ pending' = StartStopCleanup
         /\ UNCHANGED <<animationFrameRef, nextId>>

\* lines 168-178: the cleanup of the previous run of the start/stop effect,
\* then its run for the render whose processFrame closure is c
StartStopEffect(c) ==
    IF c.enabled /\ ~c.isLoading
    THEN /\ animationFrameRef' = nextId
         /\ pending' = StartStopCleanup \cup {[id |-> nextId, closure |-> c, at |-> clock]}
         /\ nextId' = nextId + 1
    ELSE /\ pending' = StartStopCleanup
         /\ UNCHANGED <<animationFrameRef, nextId>>

\* a render commits, mutated: mode is not among the deps of processFrame
\* (line 165), a change of mode alone does not run the effect again
CommitIgnoringMode(c) ==
    IF [c EXCEPT !.mode = CurrentClosure.mode] # CurrentClosure
    THEN StartStopEffect(c)
    ELSE UNCHANGED <<animationFrameRef, pending, nextId>>

\* a render commits, mutated: isLoading is not among the deps of the
\* start/stop effect (line 178), the end of loading does not run it again
CommitIgnoringIsLoading(c) ==
    IF [c EXCEPT !.isLoading = CurrentClosure.isLoading] # CurrentClosure
    THEN StartStopEffect(c)
    ELSE UNCHANGED <<animationFrameRef, pending, nextId>>

\* a render commits: the effect runs again iff one of its deps changed
Commit(c) ==
    IF c # CurrentClosure
    THEN StartStopEffect(c)
    ELSE UNCHANGED <<animationFrameRef, pending, nextId>>

\* the catch block, mutated: it writes without looking at isMounted
OnInitRejectedUnguarded(err) ==
    /\ error' = ErrorMessage(err)
    /\ isLoading' = FALSE
    /\ Commit(Closure(mode, videoElement, canvasElement, enabled, FALSE))

\* lines 95-100
OnInitRejected(err) ==
    IF isMounted
    THEN /\ error' = ErrorMessage(err)
         /\ isLoading' = FALSE
         /\ Commit(Closure(mode, videoElement, canvasElement, enabled, FALSE))
    ELSE UNCHANGED <<error, isLoading, animationFrameRef, pending, nextId>>

\* lines 89-94, mutated: the pose landmarker is not stored
OnInitFulfilledNoPose(st) ==
    IF isMounted
    THEN /\ faceLandmarkerRef' = Landmarker(st, "face")
         /\ handLandmarkerRef' = Landmarker(st, "hand")
         /\ poseLandmarkerRef' = poseLandmarkerRef
         /\ isLoading' = FALSE
         /\ Commit(Closure(mode, videoElement, canvasElement, enabled, FALSE))
    ELSE UNCHANGED <<faceLandmarkerRef, handLandmarkerRef, poseLandmarkerRef,
                     isLoading, animationFrameRef, pending, nextId>>

\* lines 89-94
OnInitFulfilled(st) ==
    IF isMounted
    THEN /\ faceLandmarkerRef' = Landmarker(st, "face")
         /\ handLandmarkerRef' = Landmarker(st, "hand")
         /\ poseLandmarkerRef' = Landmarker(st, "pose")
         /\ isLoading' = FALSE
         /\ Commit(Closure(mode, videoElement, canvasElement, enabled, FALSE))
    ELSE UNCHANGED <<faceLandmarkerRef, handLandmarkerRef, poseLandmarkerRef,
                     isLoading, animationFrameRef, pending, nextId>>

\* lines 46-87: FilesetResolver.forVisionTasks fulfils; the three
\* createFromOptions calls start unless the hook was unmounted
ResolverFulfilled ==
    /\ initPc = "resolver"
    /\ IF isMounted
       THEN /\ initPc' = "creating"
            /\ created' = [d \in Detectors |-> "pending"]
       ELSE /\ initPc' = "done"
            /\ UNCHANGED created
    /\ UNCHANGED <<mounted, isMounted, isLoading, error, fps,
                   faceLandmarkerRef, handLandmarkerRef, poseLandmarkerRef,
                   animationFrameRef, lastTimeRef, frameCountRef, fpsTimeRef,
                   mode, videoElement, canvasElement, enabled, pending,
                   nextId, clock, lastTick, drawVars>>

\* lines 46-48, 95-100: FilesetResolver.forVisionTasks rejects
ResolverRejected(err) ==
    /\ initPc = "resolver"
    /\ nextId <= MaxFrames
    /\ initPc' = "done"
    /\ OnInitRejected(err)
    /\ UNCHANGED <<mounted, isMounted, fps, faceLandmarkerRef,
                   handLandmarkerRef, poseLandmarkerRef, lastTimeRef,
                   frameCountRef, fpsTimeRef, mode, videoElement,
                   canvasElement, enabled, created, clock, lastTick,
                   drawVars>>

\* lines 53-100: one createFromOptions promise settles; when that settles
\* the Promise.all of line 53, initializeModels resumes
CreateSettled(d, how, err) ==
    /\ created[d] = "pending"
    /\ nextId <= MaxFrames
    /\ created' = [created EXCEPT ![d] = how]
    /\ IF initPc = "creating" /\ PromiseAll(created') = "rejected"
       THEN /\ initPc' = "done"
            /\ OnInitRejected(err)
            /\ UNCHANGED <<faceLandmarkerRef, handLandmarkerRef,
                           poseLandmarkerRef>>
       ELSE IF initPc = "creating" /\ PromiseAll(created') = "fulfilled"
       THEN /\ initPc' = "done"
            /\ OnInitFulfilled(created')
            /\ UNCHANGED error
       ELSE UNCHANGED <<initPc, error, isLoading, faceLandmarkerRef,
                        handLandmarkerRef, poseLandmarkerRef,
                        animationFrameRef, pending, nextId>>
    /\ UNCHANGED <<mounted, isMounted, fps, lastTimeRef, frameCountRef,
                   fpsTimeRef, mode, videoElement, canvasElement, enabled,
                   clock, lastTick, drawVars>>

\* a render, mutated: the init effect has no dependency array (line 108) and
\* runs again at every render, starting initializeModels anew
RenderRunsInitAgain(m, v, c, e) ==
    /\ mounted
    /\ nextId <= MaxFrames
    /\ <<m, v, c, e>> # <<mode, videoElement, canvasElement, enabled>>
    /\ mode' = m
    /\ videoElement' = v
    /\ canvasElement' = c
    /\ enabled' = e
    /\ isLoading' = TRUE
    /\ error' = NULL
    /\ initPc' = "resolver"
    /\ created' = [d \in Detectors |-> "idle"]
    /\ Commit(Closure(m, v, c, e, TRUE))
    /\ UNCHANGED <<mounted, isMounted, fps,
                   faceLandmarkerRef, handLandmarkerRef, poseLandmarkerRef,
                   lastTimeRef, frameCountRef, fpsTimeRef,
                   clock, lastTick, drawVars>>

\* a render, mutated: the commit that restarts the loop also resets the
\* frame counter and the window start
RenderResetsFpsRefs(m, v, c, e) ==
    /\ mounted
    /\ nextId <= MaxFrames
    /\ <<m, v, c, e>> # <<mode, videoElement, canvasElement, enabled>>
    /\ mode' = m
    /\ videoElement' = v
    /\ canvasElement' = c
    /\ enabled' = e
    /\ frameCountRef' = 0
    /\ fpsTimeRef' = 0
    /\ Commit(Closure(m, v, c, e, isLoading))
    /\ UNCHANGED <<mounted, isMounted, isLoading, error, fps,
                   faceLandmarkerRef, handLandmarkerRef, poseLandmarkerRef,
                   lastTimeRef, initPc, created,
                   clock, lastTick, drawVars>>

\* lines 18-23, 165, 168-178: the parent renders the hook with new props
Render(m, v, c, e) ==
    /\ mounted
    /\ nextId <= MaxFrames
    /\ <<m, v, c, e>> # <<mode, videoElement, canvasElement, enabled>>
    /\ mode' = m
    /\ videoElement' = v
    /\ canvasElement' = c
    /\ enabled' = e
    /\ Commit(Closure(m, v, c, e, isLoading))
    /\ UNCHANGED <<mounted, isMounted, isLoading, error, fps,
                   faceLandmarkerRef, handLandmarkerRef, poseLandmarkerRef,
                   lastTimeRef, frameCountRef, fpsTimeRef, initPc, created,
                   clock, lastTick, drawVars>>

\* lines 105-107, 173-177: the component unmounts; both cleanups run
Unmount ==
    /\ mounted
    /\ mounted' = FALSE
    /\ isMounted' = FALSE
    /\ pending' = StartStopCleanup
    /\ UNCHANGED <<animationFrameRef, nextId, isLoading, error, fps, faceLandmarkerRef,
                   handLandmarkerRef, poseLandmarkerRef, lastTimeRef,
                   frameCountRef, fpsTimeRef, mode, videoElement,
                   canvasElement, enabled, initPc, created, clock, lastTick,
                   drawVars>>

----------------------------------------------------------------------------
(* Frame loop: processFrame, lines 111-165 *)

Ev(op, on) == [op |-> op, on |-> on]

Ops(events) == {e.op : e \in Range(events)}

\* Math.round of a quotient of positive integers
Round(a, b) == (2 * a + b) \div (2 * b)

\* line 117: canvasElement.getContext('2d')
GetContext(c) == IF c = "canvas" THEN "ctx" ELSE NULL

\* lines 138, 145, 152: the landmarker ref a mode's case reads
RefOf(m) ==
    CASE m = "clown-nose" -> faceLandmarkerRef
      [] m = "rock-paper" -> handLandmarkerRef
      [] m = "victory" -> poseLandmarkerRef

\* lines 141, 148, 155: the draw function a mode's case calls
DrawOf(m) ==
    CASE m = "clown-nose" -> "drawClownNose"
      [] m = "rock-paper" -> "drawRockPaper"
      [] m = "victory" -> "drawVictory"

\* lines 120-128, mutated: line 122 is missing, the window start is never
\* initialised
FpsUpdateNoWindowInit(timestamp) ==
    LET count == frameCountRef + 1
        elapsed == timestamp - fpsTimeRef
    IN  IF elapsed >= 1000
        THEN [frameCount |-> 0, fpsTime |-> timestamp,
              fps |-> Round(count * 1000, elapsed),
              events |-> <<Ev("frameCount++", ""), Ev("setFps", "")>>]
        ELSE [frameCount |-> count, fpsTime |-> fpsTimeRef, fps |-> fps,
              events |-> <<Ev("frameCount++", "")>>]

\* lines 120-128, mutated: line 126 is missing, the counter is not reset
FpsUpdateKeepsCount(timestamp) ==
    LET count == frameCountRef + 1
        start == IF fpsTimeRef = 0 THEN timestamp ELSE fpsTimeRef
        elapsed == timestamp - start
    IN  IF elapsed >= 1000
        THEN [frameCount |-> count, fpsTime |-> timestamp,
              fps |-> Round(count * 1000, elapsed),
              events |-> <<Ev("frameCount++", ""), Ev("setFps", "")>>]
        ELSE [frameCount |-> count, fpsTime |-> start, fps |-> fps,
              events |-> <<Ev("frameCount++", "")>>]

\* lines 120-128: the FPS accounting of one counted tick
FpsUpdate(timestamp) ==
    LET count == frameCountRef + 1
        start == IF fpsTimeRef = 0 THEN timestamp ELSE fpsTimeRef
        elapsed == timestamp - start
    IN  IF elapsed >= 1000
        THEN [frameCount |-> 0, fpsTime |-> timestamp,
              fps |-> Round(count * 1000, elapsed),
              events |-> <<Ev("frameCount++", ""), Ev("setFps", "")>>]
        ELSE [frameCount |-> count, fpsTime |-> start, fps |-> fps,
              events |-> <<Ev("frameCount++", "")>>]

\* the try block, mutated: it calls the landmarker without testing the ref
TryBlockNoRefTest(c, rs, o) ==
    IF rs >= 2
    THEN IF RefOf(c.mode) = NULL \/ o = "detectThrows"
         THEN <<Ev("detectForVideo", RefOf(c.mode)), Ev("console.error", "")>>
         ELSE IF o = "drawThrows"
         THEN <<Ev("detectForVideo", RefOf(c.mode)), Ev(DrawOf(c.mode), ""),
                Ev("console.error", "")>>
         ELSE <<Ev("detectForVideo", RefOf(c.mode)), Ev(DrawOf(c.mode), "")>>
    ELSE <<>>

\* the try block, mutated: it calls the landmarker without testing the
\* video's readyState
TryBlockNoReadyStateTest(c, rs, o) ==
    IF RefOf(c.mode) # NULL
    THEN IF o = "detectThrows"
         THEN <<Ev("detectForVideo", RefOf(c.mode)), Ev("console.error", "")>>
         ELSE IF o = "drawThrows"
         THEN <<Ev("detectForVideo", RefOf(c.mode)), Ev(DrawOf(c.mode), ""),
                Ev("console.error", "")>>
         ELSE <<Ev("detectForVideo", RefOf(c.mode)), Ev(DrawOf(c.mode), "")>>
    ELSE <<>>

\* lines 133-161: what the try block does in mode c.mode when the video's
\* readyState is rs and the calls end as o says
TryBlock(c, rs, o) ==
    IF RefOf(c.mode) # NULL /\ rs >= 2
    THEN IF o = "detectThrows"
         THEN <<Ev("detectForVideo", RefOf(c.mode)), Ev("console.error", "")>>
         ELSE IF o = "drawThrows"
         THEN <<Ev("detectForVideo", RefOf(c.mode)), Ev(DrawOf(c.mode), ""),
                Ev("console.error", "")>>
         ELSE <<Ev("detectForVideo", RefOf(c.mode)), Ev(DrawOf(c.mode), "")>>
    ELSE <<>>

\* lines 120-164, mutated: the next frame is requested inside the try block,
\* after the draw call
ProcessedEventsRafInsideTry(fpsEvents, c, rs, o) ==
    LET try == TryBlock(c, rs, o)
    IN  fpsEvents \o <<Ev("clearRect", "")>> \o try
        \o (IF "console.error" \in {try[i].op : i \in 1..Len(try)}
            THEN <<>>
            ELSE <<Ev("requestAnimationFrame", "")>>)

\* lines 120-164, mutated: the next frame is requested before the try block
ProcessedEventsRafFirst(fpsEvents, c, rs, o) ==
    fpsEvents \o <<Ev("requestAnimationFrame", "")>>
    \o <<Ev("clearRect", "")>> \o TryBlock(c, rs, o)

\* lines 120-164, mutated: the canvas is cleared only when the video has no
\* current frame
ProcessedEventsClearWhenNoFrame(fpsEvents, c, rs, o) ==
    fpsEvents \o (IF rs >= 2 THEN <<>> ELSE <<Ev("clearRect", "")>>)
    \o TryBlock(c, rs, o) \o <<Ev("requestAnimationFrame", "")>>

\* lines 120-164: what a tick past both early returns does, in order
ProcessedEvents(fpsEvents, c, rs, o) ==
    fpsEvents \o <<Ev("clearRect", "")>> \o TryBlock(c, rs, o)
    \o <<Ev("requestAnimationFrame", "")>>

\* line 134, mutated: the detectors are given the start of the FPS window
PerformanceNowWindowStart(timestamp) ==
    IF fpsTimeRef = 0 THEN timestamp ELSE fpsTimeRef

\* line 134: performance.now() read in a callback that runs at timestamp;
\* the value the detector is given
PerformanceNow(timestamp) == timestamp

\* a run of processFrame that returns early writes none of the refs
EarlyReturn(branch, events) ==
    [branch |-> branch, events |-> events, frameCount |-> frameCountRef,
     fpsTime |-> fpsTimeRef, fps |-> fps, lastTime |-> lastTimeRef,
     currentTime |-> 0]

\* lines 111-165, mutated: the guard at lines 112-115 returns without
\* requesting the next frame
ProcessFrameGuardReturns(c, timestamp, rs, o) ==
    IF ~c.enabled \/ c.videoElement = NULL \/ c.canvasElement = NULL
       \/ c.isLoading
    THEN EarlyReturn("guard", <<>>)
    ELSE IF GetContext(c.canvasElement) = NULL
    THEN EarlyReturn("noContext", <<>>)
    ELSE LET f == FpsUpdate(timestamp)
         IN  [branch |-> "processed",
              events |-> ProcessedEvents(f.events, c, rs, o),
              frameCount |-> f.frameCount, fpsTime |-> f.fpsTime,
              fps |-> f.fps, lastTime |-> timestamp,
              currentTime |-> PerformanceNow(timestamp)]

\* lines 111-165: one run of the processFrame whose closure is c
ProcessFrame(c, timestamp, rs, o) ==
    IF ~c.enabled \/ c.videoElement = NULL \/ c.canvasElement = NULL
       \/ c.isLoading
    THEN EarlyReturn("guard", <<Ev("requestAnimationFrame", "")>>)
    ELSE IF GetContext(c.canvasElement) = NULL
    THEN EarlyReturn("noContext", <<>>)
    ELSE LET f == FpsUpdate(timestamp)
         IN  [branch |-> "processed",
              events |-> ProcessedEvents(f.events, c, rs, o),
              frameCount |-> f.frameCount, fpsTime |-> f.fpsTime,
              fps |-> f.fps, lastTime |-> timestamp,
              currentTime |-> PerformanceNow(timestamp)]

\* what the model remembers of the latest tick: the branch processFrame
\* took, what it did in order, the mode prop at that tick, whether the tick
\* before ran in another mode, whether the try block saw a video with a
\* current frame (readyState >= 2), whether the tick before threw, the timestamp of the first counted tick (0: none yet) and the
\* interval between successive counted ticks (0: fewer than two, -1: varying)
\* the marks the canvas shows, each with the draw function that made it
\* and the timestamp of its tick, and for each detector the timestamp of its
\* latest invocation before that tick (0: none) and the timestamp the tick
\* gave to its detector
NoTick == [branch |-> "none", events |-> <<>>, activeMode |-> NULL,
           afterThrow |-> FALSE, switched |-> FALSE, ready |-> FALSE,
           firstCounted |-> 0, interval |-> 0, canvas |-> {},
           before |-> [d \in Detectors |-> 0], currentTime |-> 0]

\* for each detector the timestamp given to its latest invocation so far
Before ==
    [d \in Detectors |->
        IF Ev("detectForVideo", d) \in Range(lastTick.events)
        THEN lastTick.currentTime
        ELSE lastTick.before[d]]

\* the marks on the canvas after the canvas calls of events, made at
\* timestamp, on a canvas that showed before: clearRect over the whole
\* canvas (line 131) removes every mark, a draw function adds its own
RECURSIVE Paint(_, _, _)
Paint(events, before, timestamp) ==
    IF events = <<>>
    THEN before
    ELSE LET e == Head(events)
         IN  Paint(Tail(events),
                   IF e.op = "clearRect"
                   THEN {}
                   ELSE IF e.op \in {"drawClownNose", "drawRockPaper",
                                     "drawVictory"}
                   THEN before \cup {[by |-> e.op, at |-> timestamp]}
                   ELSE before,
                   timestamp)

\* the first counted tick so far, after a tick at timestamp on branch
FirstCounted(branch, timestamp) ==
    IF branch = "processed" /\ lastTick.firstCounted = 0
    THEN timestamp
    ELSE lastTick.firstCounted

\* the common interval of the counted ticks so far, after a tick at
\* timestamp on branch; lastTimeRef is the timestamp of the counted tick
\* before (line 163)
Interval(branch, timestamp) ==
    IF branch # "processed" \/ lastTimeRef = 0
    THEN lastTick.interval
    ELSE IF lastTick.interval \in {0, timestamp - lastTimeRef}
    THEN timestamp - lastTimeRef
    ELSE -1

Threw(tick) == "console.error" \in Ops(tick.events)

\* the time from the latest tick to the run of callback cb: a callback
\* requested since the latest display refresh runs at a later refresh; one
\* requested before it belongs to that refresh and runs right after the
\* callback that ran then, where performance.now() may read the same value
RefreshDelays(cb) ==
    IF cb.at < clock THEN FrameIntervals \cup {0} ELSE FrameIntervals

\* the browser runs one requested animation-frame callback at a display
\* refresh
Tick(cb, dt, rs, o) ==
    /\ cb \in pending
    /\ nextId <= MaxFrames
    /\ dt \in RefreshDelays(cb)
    /\ clock' = clock + dt
    /\ LET r == ProcessFrame(cb.closure, clock', rs, o)
       IN  /\ frameCountRef' = r.frameCount
           /\ fpsTimeRef' = r.fpsTime
           /\ fps' = r.fps
           /\ lastTimeRef' = r.lastTime
           /\ lastTick' = [branch |-> r.branch, events |-> r.events,
                           activeMode |-> mode, afterThrow |-> Threw(lastTick),
                           switched |-> lastTick.activeMode \in Modes \ {mode},
                           ready |-> r.branch = "processed" /\ rs >= 2,
                           firstCounted |-> FirstCounted(r.branch, clock'),
                           interval |-> Interval(r.branch, clock'),
                           canvas |-> Paint(r.events, lastTick.canvas,
                                            clock'),
                           before |-> Before,
                           currentTime |-> r.currentTime]
           /\ IF "requestAnimationFrame" \in Ops(r.events)
              THEN /\ animationFrameRef' = nextId
                   /\ pending' = (pending \ {cb})
                                 \cup {[id |-> nextId, closure |-> cb.closure,
                                        at |-> clock']}
                   /\ nextId' = nextId + 1
              ELSE /\ pending' = pending \ {cb}
                   /\ UNCHANGED <<animationFrameRef, nextId>>
    /\ UNCHANGED <<mounted, isMounted, isLoading, error, faceLandmarkerRef,
                   handLandmarkerRef, poseLandmarkerRef, mode, videoElement,
                   canvasElement, enabled, initPc, created, drawVars>>

----------------------------------------------------------------------------
(* Hand gesture: drawRockPaper, lines 235-370 *)

Coords == 0..MaxCoord

\* the landmark indices drawRockPaper's classification reads
TipAndPipIndices == {6, 8, 10, 12, 14, 16, 18, 20}

ThumbIndices == {0, 3, 4}

\* one hand: 21 landmarks, those the classification reads set from ys and xs
HandOf(ys, xs) ==
    [i \in 0..20 |->
        [x |-> IF i \in ThumbIndices THEN xs[i] ELSE 0,
         y |-> IF i \in TipAndPipIndices THEN ys[i] ELSE 0]]

Hands == {HandOf(ys, xs) : ys \in [TipAndPipIndices -> Coords],
                           xs \in [ThumbIndices -> Coords]}

\* lines 286-295: the fingers drawRockPaper tests
Fingers == {"index", "middle", "ring", "pinky", "thumb"}

\* a hand that holds out exactly the fingers f with ext[f]: a held-out
\* finger has its tip above its PIP joint, a held-out thumb has its tip
\* farther from the wrist than its joint
PosedHand(ext) ==
    HandOf([i \in TipAndPipIndices |->
               CASE i \in {6, 8} -> IF ext["index"] = (i = 6) THEN 1 ELSE 0
                 [] i \in {10, 12} -> IF ext["middle"] = (i = 10) THEN 1 ELSE 0
                 [] i \in {14, 16} -> IF ext["ring"] = (i = 14) THEN 1 ELSE 0
                 [] i \in {18, 20} -> IF ext["pinky"] = (i = 18) THEN 1 ELSE 0],
           [i \in ThumbIndices |-> IF i = 4 /\ ext["thumb"] THEN 1 ELSE 0])

\* one hand for each of the 32 combinations of held-out fingers
PosedHands == {PosedHand(ext) : ext \in [Fingers -> BOOLEAN]}

Abs(n) == IF n < 0 THEN -n ELSE n

\* lines 286-289
IndexExtended(landmarks) == landmarks[8].y < landmarks[6].y

MiddleExtended(landmarks) == landmarks[12].y < landmarks[10].y

\* the ring test, mutated: the comparison is the wrong way round
RingExtendedBelow(landmarks) == landmarks[16].y > landmarks[14].y

RingExtended(landmarks) == landmarks[16].y < landmarks[14].y

PinkyExtended(landmarks) == landmarks[20].y < landmarks[18].y

\* the thumb test, mutated: an equal distance counts as extended
ThumbExtendedOrEqual(landmarks) ==
    Abs(landmarks[4].x - landmarks[0].x) >= Abs(landmarks[3].x - landmarks[0].x)

\* lines 292-295
ThumbExtended(landmarks) ==
    Abs(landmarks[4].x - landmarks[0].x) > Abs(landmarks[3].x - landmarks[0].x)

\* lines 298-303
ExtendedCount(landmarks) ==
    (IF IndexExtended(landmarks) THEN 1 ELSE 0)
    + (IF MiddleExtended(landmarks) THEN 1 ELSE 0)
    + (IF RingExtended(landmarks) THEN 1 ELSE 0)
    + (IF PinkyExtended(landmarks) THEN 1 ELSE 0)
    + (IF ThumbExtended(landmarks) THEN 1 ELSE 0)

\* line 330: the template string `??? (${extendedCount})`
UnknownText(n) == <<"??? (", n, ")">>

\* the classification, mutated: SCISSORS does not look at the pinky
GestureIgnoringPinky(landmarks) ==
    IF IndexExtended(landmarks) /\ MiddleExtended(landmarks)
       /\ ~RingExtended(landmarks)
    THEN <<"SCISSORS">>
    ELSE IF ExtendedCount(landmarks) <= 1 THEN <<"ROCK">>
    ELSE IF ExtendedCount(landmarks) = 5 THEN <<"PAPER">>
    ELSE UnknownText(ExtendedCount(landmarks))

\* the classification, mutated: ROCK is two fingers or fewer
GestureRockUpToTwo(landmarks) ==
    IF IndexExtended(landmarks) /\ MiddleExtended(landmarks)
       /\ ~RingExtended(landmarks) /\ ~PinkyExtended(landmarks)
    THEN <<"SCISSORS">>
    ELSE IF ExtendedCount(landmarks) <= 2 THEN <<"ROCK">>
    ELSE IF ExtendedCount(landmarks) = 5 THEN <<"PAPER">>
    ELSE UnknownText(ExtendedCount(landmarks))

\* lines 305-333
Gesture(landmarks) ==
    IF IndexExtended(landmarks) /\ MiddleExtended(landmarks)
       /\ ~RingExtended(landmarks) /\ ~PinkyExtended(landmarks)
    THEN <<"SCISSORS">>
    ELSE IF ExtendedCount(landmarks) <= 1 THEN <<"ROCK">>
    ELSE IF ExtendedCount(landmarks) = 5 THEN <<"PAPER">>
    ELSE UnknownText(ExtendedCount(landmarks))

\* drawRockPaper, mutated: line 254 takes the last hand of the result
DrawRockPaperLastHand(results) ==
    IF Len(results) = 0
    THEN [drawn |-> TRUE, prompt |-> "Show your hand!", skeleton |-> FALSE]
    ELSE LET landmarks == results[Len(results)]
         IN  [drawn |-> TRUE, prompt |-> NULL, skeleton |-> TRUE,
              extended |-> [index |-> IndexExtended(landmarks),
                            middle |-> MiddleExtended(landmarks),
                            ring |-> RingExtended(landmarks),
                            pinky |-> PinkyExtended(landmarks),
                            thumb |-> ThumbExtended(landmarks)],
              gesture |-> Gesture(landmarks),
              fingers |-> ExtendedCount(landmarks)]

\* lines 241-369: what drawRockPaper puts on the surface for results.landmarks
DrawRockPaper(results) ==
    IF Len(results) = 0
    THEN [drawn |-> TRUE, prompt |-> "Show your hand!", skeleton |-> FALSE]
    ELSE LET landmarks == results[1]
         IN  [drawn |-> TRUE, prompt |-> NULL, skeleton |-> TRUE,
              extended |-> [index |-> IndexExtended(landmarks),
                            middle |-> MiddleExtended(landmarks),
                            ring |-> RingExtended(landmarks),
                            pinky |-> PinkyExtended(landmarks),
                            thumb |-> ThumbExtended(landmarks)],
              gesture |-> Gesture(landmarks),
              fingers |-> ExtendedCount(landmarks)]

NoHands == <<>>

NothingDrawn == [drawn |-> FALSE]

\* drawRockPaper is called once with the detection result `hand`
CallDrawRockPaper ==
    /\ ~handDrawn.drawn
    /\ handDrawn' = DrawRockPaper(hand)
    /\ UNCHANGED <<hand, hookVars, faceVars, poseVars>>

----------------------------------------------------------------------------
(* Face filter: drawClownNose, lines 184-233 *)
(* Landmark coordinates are in tenths of the frame and the surface's width *)
(* and height in tens of pixels, so a product of the two is in pixels; the *)
(* radius is in hundredths of a pixel.                                    *)

\* the face landmark indices drawClownNose reads
FaceIndices == {1, 4, 10, 152, 234, 454}

Tenths == 0..MaxTenth

\* 100 x 100, 640 x 480 and 1000 x 1000 pixels
Surfaces == {[width |-> 10, height |-> 10], [width |-> 64, height |-> 48],
             [width |-> 100, height |-> 100]}

\* one face: the two cheek landmarks set from l and r, the others centred
FaceOf(l, r) ==
    [i \in FaceIndices |->
        IF i = 234 THEN l ELSE IF i = 454 THEN r ELSE [x |-> 5, y |-> 5]]

Points == [x : Tenths, y : Tenths]

Faces == {FaceOf(l, r) : l \in Points, r \in Points}

RECURSIVE SqrtBetween(_, _, _)
\* the largest r in lo..hi with r * r <= n
SqrtBetween(n, lo, hi) ==
    IF lo >= hi THEN lo
    ELSE LET mid == (lo + hi + 1) \div 2
         IN  IF mid * mid <= n THEN SqrtBetween(n, mid, hi)
             ELSE SqrtBetween(n, lo, mid - 1)

\* Math.sqrt, exact on the squares (46340 squared is the largest square TLC
\* can compute)
Sqrt(n) == SqrtBetween(n, 0, IF n < 46340 THEN n ELSE 46340)

IsSquare(n) == Sqrt(n) * Sqrt(n) = n

\* Math.pow(x, 2)
Pow2(x) == x * x

\* lines 200-205, squared: the cheek distance in pixels, before Math.sqrt
CheekDistanceSquared(landmarks, width, height) ==
    Pow2((landmarks[454].x - landmarks[234].x) * width)
    + Pow2((landmarks[454].y - landmarks[234].y) * height)

\* lines 200-205
CheekDistance(landmarks, width, height) ==
    Sqrt(CheekDistanceSquared(landmarks, width, height))

Max(a, b) == IF a >= b THEN a ELSE b

Min(a, b) == IF a <= b THEN a ELSE b

\* the radius, mutated: the two limits are swapped
RadiusLimitsSwapped(cheekDistance) ==
    Max(8000, Min(cheekDistance * 15, 1000))

\* line 207: Math.max(10, Math.min(cheekDistance * 0.15, 80)), in hundredths
Radius(cheekDistance) == Max(1000, Min(cheekDistance * 15, 8000))

\* line 190
NoFaceDetected(results) == Len(results) = 0

\* lines 184-233: what drawClownNose puts on the surface
DrawClownNose(results, width, height) ==
    IF NoFaceDetected(results)
    THEN [called |-> TRUE, prompt |-> NULL, nose |-> NULL, markers |-> {}]
    ELSE LET landmarks == results[1]
         IN  [called |-> TRUE, prompt |-> NULL,
              nose |-> [x |-> landmarks[4].x * width,
                        y |-> landmarks[4].y * height,
                        radius |-> Radius(CheekDistance(landmarks, width,
                                                        height))],
              markers |-> {4, 1, 234, 454, 10, 152} \cap DOMAIN landmarks]

NoFaces == <<>>

NotCalled == [called |-> FALSE]

\* drawClownNose is called once with the detection result `face`
CallDrawClownNose ==
    /\ ~faceDrawn.called
    /\ faceDrawn' = DrawClownNose(face, surface.width, surface.height)
    /\ UNCHANGED <<surface, face, hookVars, handVars, poseVars>>

----------------------------------------------------------------------------
(* Body pose: drawVictory, lines 372-481 *)

\* the pose landmark indices the victory test reads: nose and the two wrists
VictoryIndices == {0, 15, 16}

\* one body: 33 landmarks, those the victory test reads set from ps
PoseOf(ps) ==
    [i \in 0..32 |-> IF i \in VictoryIndices THEN ps[i] ELSE [x |-> 0, y |-> 0]]

Poses == {PoseOf(ps) : ps \in [VictoryIndices -> [x : Coords, y : Coords]]}

\* the victory test, mutated: one raised wrist is enough
IsVictoryEitherWrist(landmarks) ==
    landmarks[15].y < landmarks[0].y \/ landmarks[16].y < landmarks[0].y

\* lines 425-429
IsVictory(landmarks) ==
    landmarks[15].y < landmarks[0].y /\ landmarks[16].y < landmarks[0].y

\* lines 372-481: what drawVictory puts on the surface
DrawVictory(results) ==
    IF Len(results) = 0
    THEN [called |-> TRUE,
          prompt |-> "Stand back so full body is visible",
          skeleton |-> FALSE, victory |-> FALSE]
    ELSE LET landmarks == results[1]
         IN  [called |-> TRUE, prompt |-> NULL, skeleton |-> TRUE,
              victory |-> IsVictory(landmarks)]

NoPoses == <<>>

\* drawVictory is called once with the detection result `pose`
CallDrawVictory ==
    /\ ~poseDrawn.called
    /\ poseDrawn' = DrawVictory(pose)
    /\ UNCHANGED <<pose, hookVars, handVars, faceVars>>

----------------------------------------------------------------------------
(* The hook after its first render and the effects of that render *)

InitHook ==
    /\ mounted = TRUE
    /\ isMounted = TRUE
    /\ isLoading = TRUE
    /\ error = NULL
    /\ fps = 0
    /\ faceLandmarkerRef = NULL
    /\ handLandmarkerRef = NULL
    /\ poseLandmarkerRef = NULL
    /\ animationFrameRef = 0
    /\ lastTimeRef = 0
    /\ frameCountRef = 0
    /\ fpsTimeRef = 0
    /\ initPc = "resolver"
    /\ created = [d \in Detectors |-> "idle"]
    /\ pending = {}
    /\ nextId = 1
    /\ clock = 0
    /\ lastTick = NoTick

\* the draw functions taken alone are not part of this specification
NoHandInput ==
    /\ hand = NoHands
    /\ handDrawn = NothingDrawn

NoFaceInput ==
    /\ surface = [width |-> 64, height |-> 48]
    /\ face = NoFaces
    /\ faceDrawn = NotCalled

NoPoseInput ==
    /\ pose = NoPoses
    /\ poseDrawn = NotCalled

\* the props a draw function's specification leaves fixed
FixedProps(m) ==
    /\ mode = m
    /\ videoElement = "video"
    /\ canvasElement = "canvas"
    /\ enabled = TRUE

Init ==
    /\ InitHook
    /\ mode \in Modes
    /\ videoElement \in VideoElements
    /\ canvasElement \in CanvasElements
    /\ enabled \in BOOLEAN
    /\ hand = NoHands
    /\ handDrawn = NothingDrawn
    /\ NoFaceInput
    /\ NoPoseInput

Next ==
    \/ ResolverFulfilled
    \/ \E err \in Rejections : ResolverRejected(err)
    \/ \E d \in Detectors, err \in Rejections :
          \/ CreateSettled(d, "fulfilled", err)
          \/ CreateSettled(d, "rejected", err)
    \/ \E m \in Modes, v \in VideoElements, c \in CanvasElements,
          e \in BOOLEAN : Render(m, v, c, e)
    \/ Unmount
    \/ \E cb \in pending, dt \in FrameIntervals \cup {0}, rs \in ReadyStates,
          o \in Outcomes : Tick(cb, dt, rs, o)

Spec == Init /\ [][Next]_vars

\* the browser runs a requested animation-frame callback
AnimationFrame ==
    \E cb \in pending, dt \in FrameIntervals \cup {0}, rs \in ReadyStates,
       o \in Outcomes : Tick(cb, dt, rs, o)

\* the hook in a visible page: a callback that stays requested is run at
\* some display refresh
SpecLive == Init /\ [][Next]_vars /\ WF_vars(AnimationFrame)

\* drawRockPaper alone, on every detection result of at most one hand
InitHand ==
    /\ InitHook
    /\ mode = "rock-paper"
    /\ videoElement = "video"
    /\ canvasElement = "canvas"
    /\ enabled = TRUE
    /\ hand \in {NoHands} \cup {<<h>> : h \in Hands}
    /\ handDrawn = NothingDrawn
    /\ NoFaceInput
    /\ NoPoseInput

NextHand == CallDrawRockPaper

SpecHand == InitHand /\ [][NextHand]_vars

\* tenths of the frame: tip and PIP y of the scenario of spec section 8
ScenarioY ==
    [i \in TipAndPipIndices |->
        CASE i \in {8, 12} -> 3
          [] i \in {16, 20} -> 6
          [] OTHER -> 5]

\* the hands of that scenario: the wrist and the thumb are left open
ScenarioHands ==
    {[i \in 0..20 |->
        [x |-> IF i \in ThumbIndices THEN xs[i] ELSE 0,
         y |-> IF i \in TipAndPipIndices THEN ScenarioY[i]
               ELSE IF i \in ThumbIndices THEN ys[i] ELSE 0]] :
     xs \in [ThumbIndices -> Coords], ys \in [ThumbIndices -> Coords]}

\* drawRockPaper alone, on the scenario's hands
InitScenario ==
    /\ InitHook
    /\ FixedProps("rock-paper")
    /\ hand \in {<<h>> : h \in ScenarioHands}
    /\ handDrawn = NothingDrawn
    /\ NoFaceInput
    /\ NoPoseInput

SpecScenario == InitScenario /\ [][NextHand]_vars

\* drawRockPaper alone, on detection results of two hands (numHands: 2,
\* line 70), each in any of the 32 poses
InitTwoHands ==
    /\ InitHook
    /\ FixedProps("rock-paper")
    /\ hand \in {<<first, second>> : first \in PosedHands,
                                      second \in PosedHands}
    /\ handDrawn = NothingDrawn
    /\ NoFaceInput
    /\ NoPoseInput

SpecTwoHands == InitTwoHands /\ [][NextHand]_vars

\* drawClownNose alone, on no face and on every face whose cheek distance is
\* a whole number of pixels, where Math.sqrt is exact
InitFace ==
    /\ InitHook
    /\ FixedProps("clown-nose")
    /\ NoHandInput
    /\ NoPoseInput
    /\ surface \in Surfaces
    /\ face \in {NoFaces} \cup {<<f>> : f \in Faces}
    /\ Len(face) > 0 =>
          IsSquare(CheekDistanceSquared(face[1], surface.width,
                                        surface.height))
    /\ faceDrawn = NotCalled

NextFace == CallDrawClownNose

SpecFace == InitFace /\ [][NextFace]_vars

\* drawVictory alone, on every detection result of at most one body
InitPose ==
    /\ InitHook
    /\ FixedProps("victory")
    /\ NoHandInput
    /\ NoFaceInput
    /\ pose \in {NoPoses} \cup {<<b>> : b \in Poses}
    /\ poseDrawn = NotCalled

NextPose == CallDrawVictory

SpecPose == InitPose /\ [][NextPose]_vars

----------------------------------------------------------------------------
(* Properties *)

AllSet ==
    /\ faceLandmarkerRef # NULL
    /\ handLandmarkerRef # NULL
    /\ poseLandmarkerRef # NULL

AllUnset ==
    /\ faceLandmarkerRef = NULL
    /\ handLandmarkerRef = NULL
    /\ poseLandmarkerRef = NULL

\* initializeModels ended in its catch block, or would have but for isMounted
InitFailed ==
    /\ initPc = "done"
    /\ \/ \E d \in Detectors : created[d] = "rejected"
       \/ \A d \in Detectors : created[d] = "idle"

\* C1: initialization is all-or-nothing. The three landmarker refs are always
\* all set or all unset, and when the resolver load or one construction failed
\* on a mounted hook, error is a string, isLoading is false and no ref is set.
C1_AllOrNothing ==
    /\ AllSet \/ AllUnset
    /\ (mounted /\ InitFailed) => (error # NULL /\ ~isLoading /\ AllUnset)

\* one construction failed, another succeeded, and nothing was kept
C1_Witness ==
    /\ mounted
    /\ InitFailed
    /\ \E d \in Detectors : created[d] = "fulfilled"
    /\ error = "Failed to load CV models"
    /\ AllUnset

\* C2 (as claimed): once error is set, no tick is scheduled and none has run.
C2_LoopNeverStartsAfterFailure ==
    error # NULL => (pending = {} /\ lastTick = NoTick)

\* the landmarker the spec pairs with each mode
ModeDetector(m) ==
    CASE m = "clown-nose" -> "face"
      [] m = "rock-paper" -> "hand"
      [] m = "victory" -> "pose"

DrawFunctions == {"drawClownNose", "drawRockPaper", "drawVictory"}

\* C3: a tick invokes a detector only if it is the active mode's detector and
\* its construction has completed, and runs only the active mode's renderer.
C3_OnlyActiveReadyDetector ==
    \A e \in Range(lastTick.events) :
        /\ e.op = "detectForVideo" =>
              /\ e.on # NULL
              /\ e.on = ModeDetector(lastTick.activeMode)
              /\ created[e.on] = "fulfilled"
        /\ e.op \in DrawFunctions => e.op = DrawOf(lastTick.activeMode)

\* a tick in victory mode invoked the pose landmarker and drew
C3_Witness ==
    /\ Ev("detectForVideo", "pose") \in Range(lastTick.events)
    /\ "drawVictory" \in Ops(lastTick.events)

\* C4: whenever the session is exposed as ready, all three landmarkers are
\* there, and no tick has invoked a detector while one was missing.
C4_ReadyMeansAllThree ==
    /\ (~isLoading /\ error = NULL) => AllSet
    /\ "detectForVideo" \in Ops(lastTick.events) => AllSet

\* a ready session has run a detector
C4_Witness ==
    /\ ~isLoading
    /\ error = NULL
    /\ "detectForVideo" \in Ops(lastTick.events)

\* C5: after the unmount nothing of initializeModels writes a landmarker ref,
\* isLoading or error.
C5_NoWriteAfterUnmount ==
    [][~mounted => UNCHANGED <<faceLandmarkerRef, handLandmarkerRef,
                               poseLandmarkerRef, isLoading, error>>]_vars

\* the hook was unmounted while loading, and a construction failed afterwards
C5_Witness ==
    /\ ~mounted
    /\ isLoading
    /\ initPc = "done"
    /\ \E d \in Detectors : created[d] = "rejected"

\* C6: a tick whose detector call or draw call throws ends by requesting the
\* next frame, and that callback is then outstanding.
C6_ThrowStillSchedules ==
    [][(clock' # clock /\ Threw(lastTick')) =>
          /\ lastTick'.events[Len(lastTick'.events)].op = "requestAnimationFrame"
          /\ \E cb \in pending' : cb.id = animationFrameRef' /\ cb.id = nextId
      ]_vars

\* the tick after a throwing tick detected and drew without throwing
C6_Witness ==
    /\ lastTick.afterThrow
    /\ lastTick.branch = "processed"
    /\ "detectForVideo" \in Ops(lastTick.events)
    /\ ~Threw(lastTick)

\* C7 (as claimed): every run of processFrame ends with the next frame
\* requested.
C7_EveryTickReschedules ==
    lastTick.branch # "none" =>
        "requestAnimationFrame" \in Ops(lastTick.events)

C9_NextFrameRequestedLast ==
    \A i \in 1..Len(lastTick.events) :
        lastTick.events[i].op = "requestAnimationFrame"
            => i = Len(lastTick.events)

\* a tick whose draw call threw requested the next frame after the catch
C9_Witness ==
    /\ Threw(lastTick)
    /\ \E e \in Range(lastTick.events) : e.op \in DrawFunctions
    /\ lastTick.events[Len(lastTick.events)].op = "requestAnimationFrame"

\* the five finger-extension booleans of a hand
Extended(landmarks) ==
    [f \in Fingers |->
        CASE f = "index" -> IndexExtended(landmarks)
          [] f = "middle" -> MiddleExtended(landmarks)
          [] f = "ring" -> RingExtended(landmarks)
          [] f = "pinky" -> PinkyExtended(landmarks)
          [] f = "thumb" -> ThumbExtended(landmarks)]

\* C10: the label is SCISSORS iff index and middle are extended and ring and
\* pinky are not; otherwise ROCK iff at most one finger is extended; otherwise
\* PAPER iff all five are; otherwise the unknown label with the count.
C10_GesturePrecedence ==
    (handDrawn.drawn /\ Len(hand) > 0) =>
        LET ext == Extended(hand[1])
            n == Cardinality({f \in Fingers : ext[f]})
            scissors == ext["index"] /\ ext["middle"] /\ ~ext["ring"]
                        /\ ~ext["pinky"]
            g == handDrawn.gesture
        IN  /\ (g = <<"SCISSORS">>) <=> scissors
            /\ ~scissors => ((g = <<"ROCK">>) <=> n <= 1)
            /\ (~scissors /\ n > 1) => ((g = <<"PAPER">>) <=> n = 5)
            /\ (~scissors /\ n > 1 /\ n < 5) => g = <<"??? (", n, ")">>

\* index, middle and thumb extended: three fingers, and still SCISSORS
C10_Witness ==
    /\ handDrawn.drawn
    /\ Len(hand) > 0
    /\ ThumbExtended(hand[1])
    /\ handDrawn.fingers = 3
    /\ handDrawn.gesture = <<"SCISSORS">>

\* C11: index, middle, ring and pinky are extended iff the tip's y is strictly
\* less than the PIP joint's y (8/6, 12/10, 16/14, 20/18); the thumb iff
\* |tip.x - wrist.x| is strictly greater than |joint.x - wrist.x|; and the
\* count is the number of true booleans among the five, so within 0..5.
C11_FingerExtension ==
    (handDrawn.drawn /\ Len(hand) > 0) =>
        LET lm == hand[1]
            ext == handDrawn.extended
            dTip == IF lm[4].x >= lm[0].x THEN lm[4].x - lm[0].x
                    ELSE lm[0].x - lm[4].x
            dJoint == IF lm[3].x >= lm[0].x THEN lm[3].x - lm[0].x
                      ELSE lm[0].x - lm[3].x
        IN  /\ ext.index <=> lm[8].y < lm[6].y
            /\ ext.middle <=> lm[12].y < lm[10].y
            /\ ext.ring <=> lm[16].y < lm[14].y
            /\ ext.pinky <=> lm[20].y < lm[18].y
            /\ ext.thumb <=> dTip > dJoint
            /\ handDrawn.fingers
                  = Cardinality({f \in DOMAIN ext : ext[f]})
            /\ handDrawn.fingers \in 0..5

\* equal y on the index and equal distances on the thumb: neither is extended,
\* while the middle finger, strictly above its joint, is the one counted
C11_Witness ==
    /\ handDrawn.drawn
    /\ Len(hand) > 0
    /\ hand[1][8].y = hand[1][6].y
    /\ hand[1][4].x = hand[1][3].x
    /\ hand[1][12].y < hand[1][10].y
    /\ handDrawn.extended.middle
    /\ handDrawn.fingers = 1

\* C12 (as claimed): on the scenario's hand the label is SCISSORS and the
\* count is 2.
C12_ScenarioScissorsCountTwo ==
    handDrawn.drawn =>
        (handDrawn.gesture = <<"SCISSORS">> /\ handDrawn.fingers = 2)

\* C12 (amended): on the scenario's hand the label is SCISSORS, and the count
\* is 2 when the thumb tip is no farther from the wrist in x than the thumb
\* joint, and 3 when it is farther.
C12_ScenarioScissors ==
    handDrawn.drawn =>
        LET lm == hand[1]
            thumbOut == (lm[4].x - lm[0].x) * (lm[4].x - lm[0].x)
                        > (lm[3].x - lm[0].x) * (lm[3].x - lm[0].x)
        IN  /\ handDrawn.gesture = <<"SCISSORS">>
            /\ handDrawn.fingers = IF thumbOut THEN 3 ELSE 2

\* the scenario's hand with the thumb out: SCISSORS, three fingers
C12_Witness ==
    /\ handDrawn.drawn
    /\ hand[1][8].y = 3
    /\ hand[1][16].y = 6
    /\ handDrawn.extended.thumb
    /\ handDrawn.gesture = <<"SCISSORS">>
    /\ handDrawn.fingers = 3

\* C13: the nose radius is clamp(0.15 x cheekDistance, 10, 80): within
\* [10, 80], exactly 10 for a cheek distance up to 10 / 0.15, exactly 80 from
\* 80 / 0.15 on, and never smaller for a larger cheek distance. (Radii are in
\* hundredths of a pixel.)
C13_RadiusClamp ==
    (faceDrawn.called /\ Len(face) > 0) =>
        LET d == CheekDistance(face[1], surface.width, surface.height)
            r == faceDrawn.nose.radius
        IN  /\ r = IF 15 * d < 1000 THEN 1000
                   ELSE IF 15 * d > 8000 THEN 8000 ELSE 15 * d
            /\ r >= 1000 /\ r <= 8000
            /\ 15 * d <= 1000 => r = 1000
            /\ 15 * d >= 8000 => r = 8000
            /\ \A d2 \in 0..(200 * MaxTenth) :
                  /\ d2 >= d => Radius(d2) >= r
                  /\ d2 <= d => Radius(d2) <= r

\* cheeks 300 px apart in x and 400 px in y: 500 px, radius 75
C13_Witness ==
    /\ faceDrawn.called
    /\ Len(face) > 0
    /\ surface.width = 100
    /\ face[1][454].x - face[1][234].x = 3
    /\ face[1][454].y - face[1][234].y = 4
    /\ faceDrawn.nose.radius = 7500

\* a body with the y of its two wrists exchanged
WristsSwapped(landmarks) ==
    [landmarks EXCEPT ![15].y = landmarks[16].y, ![16].y = landmarks[15].y]

\* C14: the victory decoration is drawn iff both wrists' y are strictly less
\* than the nose's y; not when either is equal or greater; and the outcome is
\* the same with the two wrists' y exchanged.
C14_VictoryIffBothWristsAbove ==
    (poseDrawn.called /\ Len(pose) > 0) =>
        LET lm == pose[1]
        IN  /\ poseDrawn.victory
                  <=> (lm[15].y < lm[0].y /\ lm[16].y < lm[0].y)
            /\ (lm[15].y >= lm[0].y \/ lm[16].y >= lm[0].y)
                  => ~poseDrawn.victory
            /\ DrawVictory(<<WristsSwapped(lm)>>).victory = poseDrawn.victory

\* the left wrist above the nose, the right wrist level with it: no victory
C14_Witness ==
    /\ poseDrawn.called
    /\ Len(pose) > 0
    /\ pose[1][15].y < pose[1][0].y
    /\ pose[1][16].y = pose[1][0].y
    /\ ~poseDrawn.victory

\* C15 (as claimed): on an empty detection result each mode's draw function
\* draws an instructional prompt and no skeleton.
C15_EmptyResultDrawsPrompt ==
    /\ (faceDrawn.called /\ Len(face) = 0) =>
          (faceDrawn.prompt # NULL /\ faceDrawn.nose = NULL
           /\ faceDrawn.markers = {})
    /\ (handDrawn.drawn /\ Len(hand) = 0) =>
          (handDrawn.prompt # NULL /\ ~handDrawn.skeleton)
    /\ (poseDrawn.called /\ Len(pose) = 0) =>
          (poseDrawn.prompt # NULL /\ ~poseDrawn.skeleton)

\* C16: no fps value is published during the first window: as long as no
\* counted tick has a timestamp at least 1000 ms after the first counted
\* tick, the exposed fps is its initial 0.  lastTimeRef is the timestamp of
\* the latest counted tick.
C16_NoFpsInFirstWindow ==
    (lastTick.firstCounted = 0
     \/ lastTimeRef < lastTick.firstCounted + 1000) => fps = 0

\* two ticks were counted inside the first window and nothing was published
C16_Witness ==
    /\ lastTick.firstCounted # 0
    /\ lastTimeRef = lastTick.firstCounted + 500
    /\ frameCountRef = 2
    /\ fps = 0

\* C17 (as claimed): with counted ticks at a constant rate of N per second
\* every published fps value is N, the first window's value included.
C17_ConstantRatePublishesRate ==
    ("setFps" \in Ops(lastTick.events) /\ lastTick.interval > 0
     /\ 1000 % lastTick.interval = 0)
        => fps = 1000 \div lastTick.interval

\* a step in which a tick reached the FPS accounting (line 120)
CountedTick == clock' # clock /\ lastTick'.branch = "processed"

\* C18 (as claimed): every counted tick increments the counter; with elapsed
\* measured from the stored window start, elapsed >= 1000 publishes
\* round(counter * 1000 / elapsed) and resets counter and window start,
\* elapsed < 1000 leaves fps and the window start unchanged.
C18_AccountingFromStoredStart ==
    [][CountedTick =>
          LET count == frameCountRef + 1
              elapsed == clock' - fpsTimeRef
          IN  IF elapsed >= 1000
              THEN /\ fps' = Round(count * 1000, elapsed)
                   /\ frameCountRef' = 0
                   /\ fpsTimeRef' = clock'
              ELSE /\ frameCountRef' = count
                   /\ fps' = fps
                   /\ fpsTimeRef' = fpsTimeRef]_vars

\* C18 (amended): the same, with the window start being the stored one or,
\* when no window is open yet (stored start 0), the tick's own timestamp,
\* which the tick then stores as the window start.
C18_AccountingFromOpenedWindow ==
    [][CountedTick =>
          LET count == frameCountRef + 1
              start == IF fpsTimeRef = 0 THEN clock' ELSE fpsTimeRef
              elapsed == clock' - start
          IN  IF elapsed >= 1000
              THEN /\ fps' = Round(count * 1000, elapsed)
                   /\ frameCountRef' = 0
                   /\ fpsTimeRef' = clock'
              ELSE /\ frameCountRef' = count
                   /\ fps' = fps
                   /\ fpsTimeRef' = start]_vars

\* a counted tick closed a window: it published and reset counter and start
C18_Witness ==
    /\ lastTick.branch = "processed"
    /\ "setFps" \in Ops(lastTick.events)
    /\ fps # 0
    /\ frameCountRef = 0
    /\ fpsTimeRef = clock

\* lines 112-115: what the guard of processFrame tests
Idle == ~enabled \/ videoElement = NULL \/ canvasElement = NULL \/ isLoading

\* C19: a tick that finds processing disabled, the video or canvas element
\* missing or the models loading changes neither the frame counter nor the
\* window start nor the published fps, clears nothing, invokes no detector,
\* draws nothing, and requests the next frame.
C19_IdleTickOnlyReschedules ==
    [][(clock' # clock /\ Idle) =>
          /\ UNCHANGED <<frameCountRef, fpsTimeRef, fps>>
          /\ lastTick'.events = <<Ev("requestAnimationFrame", "")>>
          /\ animationFrameRef' # animationFrameRef
          /\ \E cb \in pending' : cb.id = animationFrameRef']_vars

\* a tick ran without a video element and requested the next frame
C19_Witness ==
    /\ lastTick.branch = "guard"
    /\ videoElement = NULL
    /\ enabled
    /\ ~isLoading
    /\ \E cb \in pending : cb.id = animationFrameRef

C21_ClearedBeforeDrawing ==
    [][CountedTick =>
          LET events == lastTick'.events
          IN  /\ \E i \in 1..Len(events) :
                    /\ events[i].op = "clearRect"
                    /\ \A j \in 1..Len(events) :
                          events[j].op \in DrawFunctions \cup {"detectForVideo"}
                              => i < j
              /\ lastTick'.canvas
                     \subseteq {[by |-> DrawOf(mode), at |-> clock']}]_vars

\* a second counted tick drew, and its drawing is all the canvas shows
C21_Witness ==
    /\ lastTick.branch = "processed"
    /\ lastTick.interval > 0
    /\ lastTick.canvas = {[by |-> DrawOf(mode), at |-> clock]}

\* C22: initialization is attempted once per mounted session and the
\* readiness flag changes at most once: isLoading starts true and never
\* returns to true, error starts unset and once set keeps its value, and
\* initializeModels, once past a step, never runs that step again.
C22_InitOnceFlagWrittenOnce ==
    /\ isLoading = TRUE
    /\ error = NULL
    /\ initPc = "resolver"
    /\ [][/\ isLoading' => isLoading
          /\ error # NULL => error' = error
          /\ initPc # "resolver" => initPc' # "resolver"
          /\ initPc = "done" => initPc' = "done"
          /\ \A d \in Detectors :
                created[d] \in {"fulfilled", "rejected"}
                    => created'[d] = created[d]]_vars

\* initialization failed, and the hook was rendered and ticked afterwards
C22_Witness ==
    /\ mounted
    /\ initPc = "done"
    /\ ~isLoading
    /\ error # NULL
    /\ lastTick.branch # "none"

\* initialization has succeeded and the mounted hook is enabled with a video
\* element and a canvas that has a 2-D context
Processing ==
    /\ mounted
    /\ ~isLoading
    /\ error = NULL
    /\ enabled
    /\ videoElement # NULL
    /\ GetContext(canvasElement) # NULL

C25_OnlyFirstHand ==
    (handDrawn.drawn /\ Len(hand) = 2) =>
        /\ handDrawn.gesture = Gesture(hand[1])
        /\ handDrawn.fingers = ExtendedCount(hand[1])
        /\ handDrawn.extended = Extended(hand[1])
        /\ handDrawn = DrawRockPaper(<<hand[1]>>)

\* two hands of different labels and counts were detected and drawn
C25_Witness ==
    /\ handDrawn.drawn
    /\ Len(hand) = 2
    /\ Gesture(hand[2]) # Gesture(hand[1])
    /\ ExtendedCount(hand[2]) # ExtendedCount(hand[1])
    /\ handDrawn.gesture = <<"SCISSORS">>

\* C26: at every moment at most one animation-frame callback is requested,
\* and it is the one whose id animationFrameRef holds.
C26_AtMostOnePending ==
    /\ Cardinality(pending) <= 1
    /\ \A cb \in pending : cb.id = animationFrameRef

\* after a tick and further requests, the latest request is the only one
C26_Witness ==
    /\ lastTick.branch # "none"
    /\ animationFrameRef = MaxFrames
    /\ Cardinality(pending) = 1

\* the 32 combinations of the five finger-extension booleans
Combinations == [Fingers -> BOOLEAN]

HeldOut(ext) == Cardinality({f \in Fingers : ext[f]})

\* the three conditions of lines 319, 325 and 331, each taken alone
ScissorsCondition(ext) ==
    ext["index"] /\ ext["middle"] /\ ~ext["ring"] /\ ~ext["pinky"]

RockCondition(ext) == HeldOut(ext) <= 1

PaperCondition(ext) == HeldOut(ext) = 5

\* C27: over the 32 combinations the SCISSORS, ROCK and PAPER conditions are
\* pairwise disjoint, so the label is SCISSORS, ROCK or PAPER exactly when
\* that label's own condition holds, in whatever order they are tested:
\* SCISSORS for 2 combinations, ROCK for 6, PAPER for 1, and the unknown
\* label for the other 23, with a count of 2, 3 or 4; and the label drawn
\* depends on the hand through these five booleans only.
C27_ConditionsDisjoint ==
    LET label(ext) == Gesture(PosedHand(ext))
        labelled(g) == {ext \in Combinations : label(ext) = g}
        unknown == {ext \in Combinations :
                       label(ext) \notin {<<"SCISSORS">>, <<"ROCK">>,
                                          <<"PAPER">>}}
    IN  /\ \A ext \in Combinations :
              /\ Extended(PosedHand(ext)) = ext
              /\ ~(ScissorsCondition(ext) /\ RockCondition(ext))
              /\ ~(ScissorsCondition(ext) /\ PaperCondition(ext))
              /\ ~(RockCondition(ext) /\ PaperCondition(ext))
              /\ label(ext) = <<"SCISSORS">> <=> ScissorsCondition(ext)
              /\ label(ext) = <<"ROCK">> <=> RockCondition(ext)
              /\ label(ext) = <<"PAPER">> <=> PaperCondition(ext)
        /\ Cardinality(labelled(<<"SCISSORS">>)) = 2
        /\ labelled(<<"SCISSORS">>) =
               {ext \in Combinations :
                   {f \in Fingers : ext[f]} \ {"thumb"} = {"index", "middle"}}
        /\ Cardinality(labelled(<<"ROCK">>)) = 6
        /\ Cardinality(labelled(<<"PAPER">>)) = 1
        /\ Cardinality(unknown) = 23
        /\ \A ext \in unknown :
              /\ HeldOut(ext) \in {2, 3, 4}
              /\ label(ext) = UnknownText(HeldOut(ext))
        /\ (handDrawn.drawn /\ Len(hand) > 0) =>
              handDrawn.gesture = label(handDrawn.extended)

\* a hand with ring and pinky held out was drawn with the unknown label
C27_Witness ==
    /\ handDrawn.drawn
    /\ Len(hand) > 0
    /\ {f \in Fingers : handDrawn.extended[f]} = {"ring", "pinky"}
    /\ handDrawn.gesture = UnknownText(2)

\* C28: no tick invokes a detector while the video's readyState is below 2;
\* a tick that gets past the early returns with such a video is still
\* counted for FPS, still clears the canvas, neither detects nor draws, and
\* still requests the next frame.
C28_NoDetectionWithoutFrame ==
    [][clock' # clock =>
          LET ops == Ops(lastTick'.events)
          IN  /\ "detectForVideo" \in ops => lastTick'.ready
              /\ (lastTick'.branch = "processed" /\ ~lastTick'.ready) =>
                    /\ "frameCount++" \in ops
                    /\ \/ frameCountRef' = frameCountRef + 1
                       \/ "setFps" \in ops /\ frameCountRef' = 0
                    /\ "clearRect" \in ops
                    /\ lastTick'.canvas = {}
                    /\ ops \cap (DrawFunctions \cup {"detectForVideo"}) = {}
                    /\ animationFrameRef' # animationFrameRef
                    /\ \E cb \in pending' : cb.id = animationFrameRef'
         ]_vars

\* the models were loaded and a tick ran on a video without a current frame
C28_Witness ==
    /\ lastTick.branch = "processed"
    /\ ~lastTick.ready
    /\ RefOf(lastTick.activeMode) # NULL
    /\ Ops(lastTick.events)
           = {"frameCount++", "clearRect", "requestAnimationFrame"}
    /\ \E cb \in pending : cb.id = animationFrameRef

====
